---- MODULE Spec2Model ----
(***************************************************************************)
(* Verification model of the space-video pipeline (pipeline.js, the second *)
(* revision held in src/unnamed/part_000 lines 516-1073), its scheduler    *)
(* (src/scheduler.js) and the news service (src/news-server.js).           *)
(*                                                                         *)
(* Time is the wall clock in milliseconds.  JSON values are modelled by    *)
(* their shape: a string field is a TLA+ string, "" stands for a missing   *)
(* or falsy field, and BadObj stands for a JSON object that JavaScript     *)
(* cannot convert to a primitive (such as {"toString": 0}), so that every  *)
(* string conversion of it raises a TypeError.                             *)
(***************************************************************************)
EXTENDS Integers, Sequences, FiniteSets, TLC

VARIABLES
  now,          \* wall clock, ms (Date.now())
  env,          \* process.env: key -> "unset" | "placeholder" | "real"
  pl,           \* SpacePipeline instances: id -> instance, position in runPipeline,
                \* the requests it has sent and the number still outstanding
  resultFile,   \* pipeline_results.json: << >> (absent), or <<record>>
  lastRunFile,  \* last_run.json: [kind, timestamp, status]
  sched,        \* startScheduler / setInterval state
  inv,          \* runScheduledVideoGeneration invocations: id -> record
  main,         \* the command-line process: "running", "exit 0", "exit 1"
  server        \* the news service (news-server.js): its state, the number of
                \* requests received, the last one and the responses it got

vars == <<now, env, pl, resultFile, lastRunFile, sched, inv, main, server>>

----------------------------------------------------------------------------
\* Bounds of the model

\* clock advances allowed during one command-line pipeline run
MaxTicks == 1
\* longest article list the news collaborator answers with
MaxItems == 2
\* longest photo list the image collaborator answers with
MaxPhotos == 5
\* scheduler invocations followed
MaxInv == 2
\* clock advances (hours) allowed in the scheduler specification
MaxSchedTicks == 8

Ids == 1..MaxInv

OneHour == 60 * 60 * 1000

----------------------------------------------------------------------------
\* Values

BadObj == "<object without primitive value>"

Keys == {"TTS_OPENAI_API_KEY", "PEXELS_API_KEY", "UNSPLASH_ACCESS_KEY"}
KeyKinds == {"unset", "placeholder", "real"}

Min(a, b) == IF a < b THEN a ELSE b

RECURSIVE SeqSum(_)
SeqSum(s) == IF s = << >> THEN 0 ELSE Head(s) + SeqSum(Tail(s))

\* all sequences over S of length at most n
SeqsUpTo(S, n) == UNION {[1..k -> S] : k \in 0..n}

----------------------------------------------------------------------------
\* SpacePipeline.constructor

\* this.config: process.env[key] || ''  (a placeholder value is truthy)
ConfigSet(e, key) == e[key] # "unset"

NewResults(t) ==
  [ start_time |-> t,
    steps |-> << >>,
    status |-> "running",
    end_time |-> {},
    total_duration_seconds |-> {},
    final_outputs |-> {},
    error |-> {} ]

NoPipeline ==
  [ pc |-> "none", healthCheck |-> FALSE, results |-> NewResults(0),
    articles |-> << >>, script |-> << >>, media |-> << >>, audio |-> << >>,
    response |-> << >>, caught |-> "", returned |-> "none", healthy |-> FALSE,
    thrown |-> "", persisted |-> FALSE,
    sent |-> << >>, outstanding |-> 0, event |-> << >>, calls |-> << >>,
    late |-> << >>, awaiting |-> 0 ]

SpacePipeline(t, health) ==
  [NoPipeline EXCEPT !.pc = "runPipeline", !.healthCheck = health,
                     !.results = NewResults(t)]

\* mutant: unshift instead of push
logStepUnshift(results, stepName, success, details, t) ==
  [results EXCEPT !.steps = <<[ step |-> stepName, timestamp |-> t,
                                success |-> success, details |-> details ]>> \o @]

\* logStep: push {step, timestamp, success, details}
logStep(results, stepName, success, details, t) ==
  [results EXCEPT !.steps = Append(@, [ step |-> stepName, timestamp |-> t,
                                         success |-> success, details |-> details ])]

----------------------------------------------------------------------------
\* makeHttpRequest

\* What the network does to one request: a connection-level error, the socket
\* timeout, a response with a status code and a body, or a response whose body
\* stream fails after the status line.
NetError == [type |-> "error", statusCode |-> 0, json |-> FALSE, value |-> << >>]
NetTimeout == [type |-> "timeout", statusCode |-> 0, json |-> FALSE, value |-> << >>]
NetResponse(code, json, value) ==
  [type |-> "response", statusCode |-> code, json |-> json, value |-> value]

NetAborted(code) == [type |-> "aborted", statusCode |-> code, json |-> FALSE, value |-> << >>]

RawText == [kind |-> "text"]

Rejected(msg) == [ok |-> FALSE, status |-> 0, data |-> RawText, message |-> msg]
Resolved(code, data) == [ok |-> TRUE, status |-> code, data |-> data, message |-> ""]

\* mutant: status 400 itself is not taken as an error
makeHttpRequestOver400(ev) ==
  CASE ev.type = "error" -> Rejected("Request error")
    [] ev.type = "timeout" -> Rejected("Request timeout")
    [] OTHER ->
         IF ev.statusCode > 400
           THEN Rejected("HTTP error status")
           ELSE IF ev.type = "aborted"
             THEN Rejected("Response error")
             ELSE Resolved(ev.statusCode, IF ev.json THEN ev.value ELSE RawText)

makeHttpRequest(ev) ==
  CASE ev.type = "error" -> Rejected("Request error")
    [] ev.type = "timeout" -> Rejected("Request timeout")
    [] OTHER ->
         IF ev.statusCode >= 400
           THEN Rejected("HTTP error status")
           ELSE IF ev.type = "aborted"
             THEN Rejected("Response error")
             ELSE Resolved(ev.statusCode, IF ev.json THEN ev.value ELSE RawText)

\* resolve / reject of the promise of line 562: the first call settles it,
\* every later call is ignored
promiseSettle(current, outcome) == IF current = << >> THEN <<outcome>> ELSE current

\* mutant: the 'timeout' handler destroys the request and does not reject
onTimeoutDestroyOnly(current) == current

\* lines 614-617: the 'timeout' handler destroys the request and rejects
onTimeout(current) == promiseSettle(current, Rejected("Request timeout"))

\* lines 575-617: one of the registered callbacks runs on the promise: the
\* 'timeout' handler, or the 'error' handler of the request, or the response
\* callback followed by its 'end' or 'error' handler
Callback(current, ev) ==
  IF ev.type = "timeout"
    THEN onTimeout(current)
    ELSE promiseSettle(current, makeHttpRequest(ev))

----------------------------------------------------------------------------
\* validateEnvironment

\* mutant: any value that is set counts as configured
KeyConfiguredIfSet(e, key) == e[key] # "unset"

\* process.env[key] && !includes('your_') && !includes('_here')
KeyConfigured(e, key) == e[key] = "real"

missingKeys(e) == {k \in Keys : ~KeyConfigured(e, k)}

EnvSuccess(e) == Cardinality(missingKeys(e)) = 0

\* mutant: the validation also closes the record
validateEnvironmentCloses(results, e, t) ==
  logStep([results EXCEPT !.status = IF EnvSuccess(e) THEN "completed" ELSE "failed",
                          !.end_time = {t}],
          "Environment Validation", EnvSuccess(e),
          [ configured_keys |-> Cardinality(Keys \ missingKeys(e)),
            missing_keys |-> Cardinality(missingKeys(e)) ], t)

validateEnvironment(results, e, t) ==
  logStep(results, "Environment Validation", EnvSuccess(e),
          [ configured_keys |-> Cardinality(Keys \ missingKeys(e)),
            missing_keys |-> Cardinality(missingKeys(e)) ], t)

\* healthCheck: every service flag true
healthCheckResult(e) ==
  /\ EnvSuccess(e)
  /\ ConfigSet(e, "PEXELS_API_KEY") /\ ConfigSet(e, "UNSPLASH_ACCESS_KEY")
  /\ ConfigSet(e, "TTS_OPENAI_API_KEY")

----------------------------------------------------------------------------
\* collectNews

NoDate == 0 - 1
\* a published string that new Date() cannot parse
InvalidDate == 0 - 2

\* One element of response.data.data: null, or an object whose fields are
\* strings ("" = missing), BadObj, and the published time (NoDate = missing).
NullItem == [isNull |-> TRUE, headline_title |-> "", source |-> "", published |-> NoDate]
Item(title, source, published) ==
  [isNull |-> FALSE, headline_title |-> title, source |-> source, published |-> published]

\* The parsed body of the news collaborator: raw text, JSON null, or an object
\* with a status and a data field (missing/falsy, an array, or a truthy non-array).
NewsNull == [kind |-> "null", status |-> "", dkind |-> "missing", items |-> << >>]
NewsBody(status, dkind, items) ==
  [kind |-> "obj", status |-> status, dkind |-> dkind, items |-> items]

Or(value, default) == IF value = "" THEN default ELSE value

\* realNews.map(item => ({title, source, published, url}))   (url is never read)
ToArticle(item, t) ==
  [ title |-> Or(item.headline_title, "Unknown Title"),
    source |-> Or(item.source, "Unknown Source"),
    published |-> IF item.published = NoDate THEN t ELSE item.published ]

\* (a, b) => new Date(b.published) - new Date(a.published); a published that
\* does not parse gives NaN, which Array.prototype.sort takes as 0
Compare(a, b) ==
  IF a.published = InvalidDate \/ b.published = InvalidDate
    THEN 0
    ELSE b.published - a.published

Reverse(s) == [k \in 1..Len(s) |-> s[Len(s) + 1 - k]]

\* Array.prototype.sort of V8 on fewer than 64 elements: the leading run is
\* counted (and reversed when strictly descending under Compare), the rest is
\* inserted by binary search.  k is the length of the run found so far.
RECURSIVE RunLength(_, _, _)
RunLength(s, isDescending, k) ==
  IF k = Len(s) THEN k
  ELSE LET order == Compare(s[k + 1], s[k]) IN
       IF (isDescending /\ order < 0) \/ (~isDescending /\ order >= 0)
         THEN RunLength(s, isDescending, k + 1)
         ELSE k

\* the insertion point of pivot in s[left+1 .. right]
RECURSIVE BinarySearch(_, _, _, _)
BinarySearch(s, pivot, left, right) ==
  IF left >= right THEN left
  ELSE LET mid == left + ((right - left) \div 2) IN
       IF Compare(pivot, s[mid + 1]) < 0
         THEN BinarySearch(s, pivot, left, mid)
         ELSE BinarySearch(s, pivot, mid + 1, right)

\* s[1..start] is sorted; the elements after it are inserted one by one
RECURSIVE BinaryInsertionSort(_, _)
BinaryInsertionSort(s, start) ==
  IF start >= Len(s) THEN s
  ELSE LET pivot == s[start + 1]
           left == BinarySearch(s, pivot, 0, start)
       IN BinaryInsertionSort(
            SubSeq(s, 1, left) \o <<pivot>> \o SubSeq(s, left + 1, start)
              \o SubSeq(s, start + 2, Len(s)),
            start + 1)

\* allArticles.sort(...): for published times that all parse, the stable sort
\* in descending order of published
SortDesc(s) ==
  IF Len(s) < 2 THEN s
  ELSE LET isDescending == Compare(s[2], s[1]) < 0
           run == RunLength(s, isDescending, 2)
           made == IF isDescending
                     THEN Reverse(SubSeq(s, 1, run)) \o SubSeq(s, run + 1, Len(s))
                     ELSE s
       IN BinaryInsertionSort(made, run)

\* allArticles.slice(0, 5)
TopFive == 5
Slice5(s) == SubSeq(s, 1, Min(TopFive, Len(s)))

\* The clock reads of one statement run: the first read gives t, and ds[k] is
\* the advance (ms) between read k and read k + 1 (0 beyond the end of ds)
Delta(ds, k) == IF k \in 1..Len(ds) THEN ds[k] ELSE 0
ClockRead(t, ds, k) == t + SeqSum([j \in 1..(k - 1) |-> Delta(ds, j)])

\* The fixed placeholder articles; each published is its own new Date(), so the
\* clock may advance by d1 and d2 ms between them.
fallbackNews(t, d1, d2) ==
  << [title |-> "NASA Artemis Mission Achieves Major Milestone",
      source |-> "NASA News", published |-> t],
     [title |-> "SpaceX Launches Advanced Satellite Constellation",
      source |-> "Space News", published |-> t + d1],
     [title |-> "James Webb Telescope Discovers Distant Galaxy",
      source |-> "ESA Updates", published |-> t + d1 + d2] >>

\* mutant: the fallback path without its sort
NewsFallbackUnsorted(results, t, d1, d2, d3) ==
  LET allArticles == fallbackNews(t, d1, d2) IN
  [ results |-> logStep(results, "News Collection", TRUE,
                        [ articles_collected |-> Len(allArticles),
                          successful_feeds |-> "offline_mode",
                          latest_article |-> allArticles[1].title ], t + d1 + d2 + d3),
    articles |-> Slice5(allArticles),
    elapsed |-> d1 + d2 + d3 ]

\* lines 718-754: the fallback path.  The three published are read at t,
\* t + d1 and t + d1 + d2; logStep reads the clock once more, d3 later.
NewsFallback(results, t, d1, d2, d3) ==
  LET allArticles == SortDesc(fallbackNews(t, d1, d2)) IN
  [ results |-> logStep(results, "News Collection", TRUE,
                        [ articles_collected |-> Len(allArticles),
                          successful_feeds |-> "offline_mode",
                          latest_article |-> allArticles[1].title ], t + d1 + d2 + d3),
    articles |-> Slice5(allArticles),
    elapsed |-> d1 + d2 + d3 ]

\* the fallback path entered at the k-th clock read of the run
FallbackFrom(results, t, ds, k) ==
  LET out == NewsFallback(results, ClockRead(t, ds, k),
                          Delta(ds, k), Delta(ds, k + 1), Delta(ds, k + 2))
  IN  [out EXCEPT !.elapsed = @ + ClockRead(t, ds, k) - t]

\* the condition of line 689; reading .status of null raises a TypeError
NewsPrimary(resp) ==
  resp.ok /\ resp.status = 200 /\ resp.data.kind = "obj" /\ resp.data.status = "success"

\* a TypeError raised between lines 690 and 702, before anything is logged
NewsMapThrows(data) ==
  \/ data.dkind = "nonarray"
  \/ \E k \in 1..Len(data.items) : data.items[k].isNull

\* logStep prints every details value with a template literal, after the push
NewsLogThrows(allArticles) ==
  \/ \E k \in 1..Len(allArticles) : allArticles[k].source = BadObj
  \/ Len(allArticles) > 0 /\ allArticles[1].title = BadObj

\* line 697: the clock is read once for every item without published; the
\* number of those reads made before item k is reached
ReadsBefore(items, k) ==
  Cardinality({j \in 1..(k - 1) : ~items[j].isNull /\ items[j].published = NoDate})

\* the reads of line 697 made before the map raises its TypeError
ReadsBeforeThrow(data) ==
  IF data.dkind = "nonarray" THEN 0
  ELSE ReadsBefore(data.items,
                   CHOOSE k \in 1..Len(data.items) :
                     data.items[k].isNull /\ \A j \in 1..(k - 1) : ~data.items[j].isNull)

\* lines 681-755.  Every item without published reads the clock for itself,
\* logStep reads it again, and the fallback path reads it four more times.
collectNews(results, resp, t, ds) ==
  IF NewsPrimary(resp) /\ ~NewsMapThrows(resp.data)
    THEN LET realNews == IF resp.data.dkind = "array" THEN resp.data.items ELSE << >>
             reads == ReadsBefore(realNews, Len(realNews) + 1)
             allArticles ==
               SortDesc([k \in 1..Len(realNews) |->
                           ToArticle(realNews[k],
                                     ClockRead(t, ds, ReadsBefore(realNews, k) + 1))])
             logged == logStep(results, "News Collection", TRUE,
                         [ articles_collected |-> Len(allArticles),
                           successful_feeds |-> "flask_service",
                           latest_article |->
                             IF Len(allArticles) > 0 THEN allArticles[1].title ELSE "None" ],
                         ClockRead(t, ds, reads + 1))
         IN IF NewsLogThrows(allArticles)
              THEN FallbackFrom(logged, t, ds, reads + 2)
              ELSE [ results |-> logged, articles |-> Slice5(allArticles),
                     elapsed |-> ClockRead(t, ds, reads + 1) - t ]
    ELSE IF NewsPrimary(resp)
      THEN FallbackFrom(results, t, ds, ReadsBeforeThrow(resp.data) + 1)
      ELSE FallbackFrom(results, t, ds, 1)

----------------------------------------------------------------------------
\* generateScript

NumIntros == 3
NumOutros == 3

\* number of ' ' characters of the strings the model uses
Spaces(str) ==
  CASE str = "NASA Artemis Mission Achieves Major Milestone" -> 5
    [] str = "SpaceX Launches Advanced Satellite Constellation" -> 4
    [] str = "James Webb Telescope Discovers Distant Galaxy" -> 5
    [] str \in {"NASA News", "Space News", "ESA Updates"} -> 1
    [] str \in {"Unknown Title", "Unknown Source", "Mars Rover"} -> 1
    [] str = "Deep  Space" -> 2
    [] OTHER -> 0

IntroSpaces(i) == CASE i = 1 -> 12 [] i = 2 -> 8 [] OTHER -> 10
OutroSpaces(i) == CASE i = 1 -> 11 [] OTHER -> 10

\* "Story k: T. " + "This update comes from S. " + "\n\n"
SegmentSpaces(a) == 8 + Spaces(a.title) + Spaces(a.source)

\* the three sentences of the branch without articles, each with a trailing ' '
NoArticleSpaces == 9 + 12 + 12

\* script.split(' ').length
WordCount(script) ==
  1 + IntroSpaces(script.intro) + OutroSpaces(script.outro)
    + IF Len(script.segs) > 0
        THEN SeqSum([k \in 1..Len(script.segs) |-> SegmentSpaces(script.segs[k])])
        ELSE NoArticleSpaces

\* (wordCount / 150) * 60 seconds, held in tenths of a second
DurationTenths(wordCount) == (wordCount * 60 * 10) \div 150

\* `${article.title}` / `${article.source}` raise a TypeError on BadObj
ScriptThrows(articles) ==
  \E k \in 1..Len(articles) : articles[k].title = BadObj \/ articles[k].source = BadObj

MakeScript(articles, intro, outro) ==
  [ intro |-> intro, outro |-> outro,
    segs |-> [k \in 1..Len(articles) |->
                [title |-> articles[k].title, source |-> articles[k].source]] ]

generateScript(results, articles, intro, outro, t) ==
  LET script == MakeScript(articles, intro, outro) IN
  [ results |-> logStep(results, "Script Generation", TRUE,
                        [ word_count |-> WordCount(script),
                          estimated_duration_tenths |-> DurationTenths(WordCount(script)),
                          segments |-> Len(articles) ], t),
    script |-> script ]

----------------------------------------------------------------------------
\* collectMedia

\* One element of data.photos: src present or not, alt ("" = missing, or BadObj)
Photo(srcOk, alt) == [srcOk |-> srcOk, alt |-> alt]

MediaNull == [kind |-> "null", pkind |-> "missing", photos |-> << >>]
MediaBody(pkind, photos) == [kind |-> "obj", pkind |-> pkind, photos |-> photos]

MinMedia == 5

\* photos.forEach(photo => mediaItems.push(...)): photo.src.large raises a
\* TypeError at the first photo without src; the items pushed before it stay
RECURSIVE PushPhotos(_)
PushPhotos(photos) ==
  IF photos = << >> THEN [items |-> << >>, threw |-> FALSE]
  ELSE IF ~Head(photos).srcOk THEN [items |-> << >>, threw |-> TRUE]
  ELSE LET rest == PushPhotos(Tail(photos)) IN
       [ items |-> <<[source |-> "pexels", alt |-> Or(Head(photos).alt, "Space image")]>>
                     \o rest.items,
         threw |-> rest.threw ]

\* lines 809-837: what the try block leaves in mediaItems and realMediaCollected
MediaCollected(resp) ==
  IF resp.ok /\ resp.status = 200 /\ resp.data.kind = "obj" /\ resp.data.pkind = "array"
    THEN LET pushed == PushPhotos(resp.data.photos) IN
         [items |-> pushed.items, realMediaCollected |-> ~pushed.threw]
    ELSE [items |-> << >>, realMediaCollected |-> FALSE]

NoMediaCollected == [items |-> << >>, realMediaCollected |-> FALSE]

simulatedImages(real) ==
  [k \in 1..5 |-> [ source |-> IF real THEN "curated" ELSE "simulated",
                    alt |-> "Space image" ]]

\* lines 852-863
PadMedia(got) ==
  IF Len(got.items) < MinMedia
    THEN got.items \o simulatedImages(got.realMediaCollected)
    ELSE got.items

CountSource(items, sources) == Cardinality({k \in 1..Len(items) : items[k].source \in sources})

\* sample_image: mediaItems[0].alt is printed by logStep
MediaLogThrows(mediaItems) == Len(mediaItems) > 0 /\ mediaItems[1].alt = BadObj

\* lines 844-876: pad, log and return
collectMedia(results, got, t) ==
  LET mediaItems == PadMedia(got) IN
  [ results |-> logStep(results, "Media Collection", TRUE,
                        [ total_images |-> Len(mediaItems),
                          pexels_count |-> CountSource(mediaItems, {"pexels"}),
                          simulated_count |-> CountSource(mediaItems, {"simulated", "curated"}),
                          api_calls_successful |->
                            IF got.realMediaCollected THEN "partial" ELSE "offline_mode" ], t),
    media |-> mediaItems,
    threw |-> MediaLogThrows(mediaItems) ]

----------------------------------------------------------------------------
\* generateTTS, produceVideo

generateTTS(results, script, e, t) ==
  [ results |-> logStep(results, "TTS Generation", TRUE,
                        [ duration_tenths |-> DurationTenths(WordCount(script)),
                          api_called |-> ConfigSet(e, "TTS_OPENAI_API_KEY") ], t),
    audio |-> [duration_tenths |-> DurationTenths(WordCount(script))] ]

produceVideo(results, media, audio, t) ==
  logStep(results, "Video Production", TRUE,
          [ video_duration_tenths |-> audio.duration_tenths,
            images_used |-> Len(media) ], t)

----------------------------------------------------------------------------
\* What the collaborators may answer

\* the clock at start, and publication times before it
StartTime == 4 * OneHour
Older == 1 * OneHour
Newer == 2 * OneHour

Items ==
  { NullItem,
    Item("", "", NoDate),
    Item("Artemis", "NASA", Newer),
    Item("Mars Rover", "ESA", Older),
    Item(BadObj, "CNN", Older),
    Item("Venus", BadObj, Newer) }

NewsBodies(items, n) ==
  { NewsNull,
    NewsBody("error", "missing", << >>),
    NewsBody("success", "missing", << >>),
    NewsBody("success", "nonarray", << >>) }
  \cup {NewsBody("success", "array", s) : s \in SeqsUpTo(items, n)}

NewsEvents(items, n) ==
  { NetError, NetTimeout,
    NetResponse(500, FALSE, RawText),
    NetResponse(404, TRUE, NewsBody("error", "missing", << >>)),
    NetResponse(204, TRUE, NewsBody("success", "array", <<Item("Artemis", "NASA", Newer)>>)),
    NetResponse(200, FALSE, RawText) }
  \cup {NetResponse(200, TRUE, b) : b \in NewsBodies(items, n)}

GoodPhotos(n) == [k \in 1..n |-> Photo(TRUE, IF k = 1 THEN "Galaxy" ELSE "")]

PhotoLists(n) ==
  {GoodPhotos(k) : k \in 0..n}
  \cup {[GoodPhotos(k) EXCEPT ![1] = Photo(TRUE, BadObj)] : k \in 1..n}
  \cup {[GoodPhotos(k) EXCEPT ![k] = Photo(FALSE, "")] : k \in 1..n}

MediaEvents(n) ==
  { NetError, NetTimeout,
    NetResponse(401, TRUE, MediaBody("missing", << >>)),
    NetResponse(204, TRUE, MediaBody("array", GoodPhotos(1))),
    NetResponse(200, FALSE, RawText),
    NetResponse(200, TRUE, MediaNull),
    NetResponse(200, TRUE, MediaBody("missing", << >>)),
    NetResponse(200, TRUE, MediaBody("nonarray", << >>)) }
  \cup {NetResponse(200, TRUE, MediaBody("array", ps)) : ps \in PhotoLists(n)}

\* a millisecond boundary may fall between two clock reads of one statement run
MsSteps == {0, 1}

----------------------------------------------------------------------------
\* runPipeline, one action per stage

\* fs.writeFileSync that fails: the file keeps its content or is left truncated
FailedWrite(file) == {file, << >>}

\* JavaScript runs one callback to completion: a pipeline steps only while
\* every other pipeline is suspended in a network request
Turn(i) == \A j \in Ids \ {i} : pl[j].pc \in {"none", "newsWait", "mediaWait"}

\* lines 981-985 and 955-959: options.healthCheck; healthCheck calls
\* validateEnvironment, which logs its step, and is suspended at the await of
\* line 959
RunHealthCheck(i) ==
  /\ Turn(i)
  /\ pl[i].pc = "runPipeline" /\ pl[i].healthCheck
  /\ pl' = [pl EXCEPT ![i].results = validateEnvironment(@, env, now),
                      ![i].awaiting = @ + 1,
                      ![i].pc = "healthAwait"]
  /\ UNCHANGED <<now, env, resultFile, lastRunFile, sched, inv, main, server>>

\* lines 960-975 and 984: healthCheck resumes, reads the service flags of the
\* configuration and returns the conjunction, which runPipeline returns
ReturnHealthCheck(i) ==
  /\ Turn(i)
  /\ pl[i].pc = "healthAwait"
  /\ pl' = [pl EXCEPT ![i].returned = "boolean",
                      ![i].healthy = healthCheckResult(env),
                      ![i].awaiting = @ - 1,
                      ![i].pc = "returned"]
  /\ UNCHANGED <<now, env, resultFile, lastRunFile, sched, inv, main, server>>

\* line 988
ValidateEnv(i) ==
  /\ Turn(i)
  /\ pl[i].pc = "runPipeline" /\ ~pl[i].healthCheck
  /\ pl' = [pl EXCEPT ![i].results = validateEnvironment(@, env, now),
                      ![i].pc = "collectNews"]
  /\ UNCHANGED <<now, env, resultFile, lastRunFile, sched, inv, main, server>>

\* mutant: the request is issued and the run goes on without awaiting it
NewsRequestNoAwait(i) ==
  /\ Turn(i)
  /\ pl[i].pc = "collectNews"
  /\ pl' = [pl EXCEPT ![i].sent = Append(@, "news"), ![i].outstanding = @ + 1,
                      ![i].pc = "generateScript"]
  /\ UNCHANGED <<now, env, resultFile, lastRunFile, sched, inv, main, server>>

\* line 687: the request is issued and collectNews suspends
NewsRequest(i) ==
  /\ Turn(i)
  /\ pl[i].pc = "collectNews"
  /\ pl' = [pl EXCEPT ![i].sent = Append(@, "news"), ![i].outstanding = @ + 1,
                      ![i].pc = "newsWait"]
  /\ UNCHANGED <<now, env, resultFile, lastRunFile, sched, inv, main, server>>

\* mutant: a rejected news request is issued again
NewsSettleRetry(i, events, clocks) ==
  /\ Turn(i)
  /\ pl[i].pc = "newsWait"
  /\ \E ev \in events, ds \in clocks :
       LET resp == makeHttpRequest(ev)
           out == collectNews(pl[i].results, resp, now, ds)
       IN /\ out.elapsed = SeqSum(ds)
          /\ pl' = IF resp.ok
                     THEN [pl EXCEPT ![i].results = out.results,
                                     ![i].articles = out.articles,
                                     ![i].response = <<resp>>,
                                     ![i].outstanding = @ - 1,
                                     ![i].pc = "generateScript"]
                     ELSE [pl EXCEPT ![i].outstanding = @ - 1,
                                     ![i].pc = IF Len(pl[i].sent) < 2 THEN "collectNews"
                                               ELSE "generateScript",
                                     ![i].results = out.results,
                                     ![i].articles = out.articles,
                                     ![i].response = <<resp>>]
          /\ now' = now + out.elapsed
  /\ UNCHANGED <<env, resultFile, lastRunFile, sched, inv, main, server>>

\* lines 689-755: the request settles and collectNews runs to its return
NewsSettle(i, events, clocks) ==
  /\ Turn(i)
  /\ pl[i].pc = "newsWait"
  /\ \E ev \in events, ds \in clocks :
       LET resp == makeHttpRequest(ev)
           out == collectNews(pl[i].results, resp, now, ds)
       IN /\ out.elapsed = SeqSum(ds)
          /\ pl' = [pl EXCEPT ![i].results = out.results,
                              ![i].articles = out.articles,
                              ![i].response = <<resp>>,
                              ![i].outstanding = @ - 1,
                              ![i].pc = "generateScript"]
          /\ now' = now + out.elapsed
  /\ UNCHANGED <<env, resultFile, lastRunFile, sched, inv, main, server>>

\* line 994: generateScript is synchronous; a TypeError goes to the catch block
GenerateScript(i, intros, outros) ==
  /\ Turn(i)
  /\ pl[i].pc = "generateScript"
  /\ IF ScriptThrows(pl[i].articles)
       THEN pl' = [pl EXCEPT ![i].caught = "TypeError", ![i].response = << >>,
                             ![i].articles = << >>, ![i].pc = "catch"]
       ELSE \E intro \in intros, outro \in outros :
              LET out == generateScript(pl[i].results, pl[i].articles, intro, outro, now)
              IN pl' = [pl EXCEPT ![i].results = out.results,
                                  ![i].script = <<out.script>>,
                                  ![i].response = << >>,
                                  ![i].articles = << >>,
                                  ![i].pc = "collectMedia"]
  /\ UNCHANGED <<now, env, resultFile, lastRunFile, sched, inv, main, server>>

\* lines 805-819: without a Pexels key collectMedia runs to its return, with
\* one it issues the request and suspends
MediaStart(i) ==
  /\ Turn(i)
  /\ pl[i].pc = "collectMedia"
  /\ IF ConfigSet(env, "PEXELS_API_KEY")
       THEN pl' = [pl EXCEPT ![i].sent = Append(@, "pexels"), ![i].outstanding = @ + 1,
                             ![i].pc = "mediaWait"]
       ELSE LET out == collectMedia(pl[i].results, NoMediaCollected, now)
            IN pl' = [pl EXCEPT ![i].results = out.results,
                                ![i].media = out.media,
                                ![i].pc = "generateTTS"]
  /\ UNCHANGED <<now, env, resultFile, lastRunFile, sched, inv, main, server>>

\* lines 821-876
MediaSettle(i, events) ==
  /\ Turn(i)
  /\ pl[i].pc = "mediaWait"
  /\ \E ev \in events :
       LET resp == makeHttpRequest(ev)
           out == collectMedia(pl[i].results, MediaCollected(resp), now)
       IN pl' = [pl EXCEPT ![i].results = out.results,
                           ![i].response = <<resp>>,
                           ![i].outstanding = @ - 1,
                           ![i].media = IF out.threw THEN << >> ELSE out.media,
                           ![i].caught = IF out.threw THEN "TypeError" ELSE @,
                           ![i].pc = IF out.threw THEN "catch" ELSE "generateTTS"]
  /\ UNCHANGED <<now, env, resultFile, lastRunFile, sched, inv, main, server>>

\* line 1000
GenerateTTS(i) ==
  /\ Turn(i)
  /\ pl[i].pc = "generateTTS"
  /\ LET out == generateTTS(pl[i].results, pl[i].script[1], env, now)
     IN pl' = [pl EXCEPT ![i].results = out.results,
                         ![i].audio = <<out.audio>>,
                         ![i].response = << >>,
                         ![i].pc = "produceVideo"]
  /\ UNCHANGED <<now, env, resultFile, lastRunFile, sched, inv, main, server>>

\* line 1003
ProduceVideo(i) ==
  /\ Turn(i)
  /\ pl[i].pc = "produceVideo"
  /\ pl' = [pl EXCEPT ![i].results = produceVideo(@, pl[i].media, pl[i].audio[1], now),
                      ![i].pc = "complete"]
  /\ UNCHANGED <<now, env, resultFile, lastRunFile, sched, inv, main, server>>

\* lines 1005-1027
completeWorkflow(p, t) ==
  [p.results EXCEPT
     !.status = "completed",
     !.end_time = {t},
     !.total_duration_seconds = {t - p.results.start_time},
     !.final_outputs = {[ script |-> p.script[1],
                          media_count |-> Len(p.media),
                          audio_duration_tenths |-> p.audio[1].duration_tenths,
                          video_url |-> "https://example.com/space_news_video.mp4" ]}]

Complete(i) ==
  /\ Turn(i)
  /\ pl[i].pc = "complete"
  /\ pl' = [pl EXCEPT ![i].results = completeWorkflow(pl[i], now),
                      ![i].script = << >>, ![i].media = << >>, ![i].audio = << >>,
                      ![i].pc = "save"]
  /\ UNCHANGED <<now, env, resultFile, lastRunFile, sched, inv, main, server>>

\* lines 1030-1033: the write is inside the try block
SaveResults(i) ==
  /\ Turn(i)
  /\ pl[i].pc = "save"
  /\ \/ /\ resultFile' = <<pl[i].results>>
        /\ pl' = [pl EXCEPT ![i].returned = "results", ![i].persisted = TRUE,
                            ![i].pc = "returned"]
     \/ /\ resultFile' \in FailedWrite(resultFile)
        /\ pl' = [pl EXCEPT ![i].caught = "write failed", ![i].pc = "catch"]
  /\ UNCHANGED <<now, env, lastRunFile, sched, inv, main, server>>

\* mutant: the catch block starts a fresh step list
failWorkflowDropsSteps(results, message, t) ==
  logStep([results EXCEPT !.status = "failed", !.error = {message}, !.steps = << >>],
          "Pipeline Execution", FALSE, [error |-> message], t)

\* mutant: the catch block does not record the error message
failWorkflowNoError(results, message, t) ==
  logStep([results EXCEPT !.status = "failed"],
          "Pipeline Execution", FALSE, [error |-> message], t)

\* lines 1036-1038
failWorkflow(results, message, t) ==
  logStep([results EXCEPT !.status = "failed", !.error = {message}],
          "Pipeline Execution", FALSE, [error |-> message], t)

\* lines 1035-1044: a write that fails here raises its own error instead
Catch(i) ==
  /\ Turn(i)
  /\ pl[i].pc = "catch"
  /\ LET failed == failWorkflow(pl[i].results, pl[i].caught, now) IN
     \/ /\ resultFile' = <<failed>>
        /\ pl' = [pl EXCEPT ![i].results = failed, ![i].thrown = pl[i].caught,
                            ![i].persisted = TRUE,
                            ![i].script = << >>, ![i].media = << >>, ![i].audio = << >>,
                            ![i].response = << >>, ![i].pc = "thrown"]
     \/ /\ resultFile' \in FailedWrite(resultFile)
        /\ pl' = [pl EXCEPT ![i].results = failed, ![i].thrown = "write failed",
                            ![i].script = << >>, ![i].media = << >>, ![i].audio = << >>,
                            ![i].response = << >>, ![i].pc = "thrown"]
  /\ UNCHANGED <<now, env, lastRunFile, sched, inv, main, server>>

Stage(i, newsEvents, mediaEvents, clocks, intros, outros) ==
  \/ RunHealthCheck(i)
  \/ ReturnHealthCheck(i)
  \/ ValidateEnv(i)
  \/ NewsRequest(i)
  \/ NewsSettle(i, newsEvents, clocks)
  \/ GenerateScript(i, intros, outros)
  \/ MediaStart(i)
  \/ MediaSettle(i, mediaEvents)
  \/ GenerateTTS(i)
  \/ ProduceVideo(i)
  \/ Complete(i)
  \/ SaveResults(i)
  \/ Catch(i)

----------------------------------------------------------------------------
\* main of pipeline.js: one pipeline, run from the command line

\* no news service in this process
NoServer ==
  [state |-> "none", orphan |-> FALSE, connected |-> FALSE, starts |-> 0,
   received |-> 0, request |-> << >>, responses |-> << >>]

NoLastRun == [kind |-> "absent", timestamp |-> 0, status |-> "", duration |-> {}, video_url |-> {}]
NoInvocation ==
  [ pc |-> "none", gate |-> FALSE, gateAt |-> 0, seen |-> NoLastRun,
    outcome |-> "", runStatus |-> "", saved |-> FALSE ]
\* hadLastRun: what getLastRunInfo found at start; setAt: when setInterval was called
SchedulerOff == [pc |-> "off", nextFire |-> 0, count |-> 0, hadLastRun |-> FALSE, setAt |-> 0]

\* environments of a full run: what the stages read of it
RunEnvs ==
  { [k \in Keys |-> "unset"],
    [k \in Keys |-> "real"],
    [k \in Keys |-> IF k = "PEXELS_API_KEY" THEN "placeholder" ELSE "unset"] }

InitMain ==
  /\ now = StartTime
  /\ \E health \in BOOLEAN :
       /\ pl = [i \in Ids |-> IF i = 1 THEN SpacePipeline(StartTime, health) ELSE NoPipeline]
       /\ env \in (IF health THEN [Keys -> KeyKinds] ELSE RunEnvs)
  /\ resultFile = << >>
  /\ lastRunFile = NoLastRun
  /\ sched = SchedulerOff
  /\ inv = [i \in Ids |-> NoInvocation]
  /\ main = "running"
  /\ server = NoServer

\* lines 1049-1066: exit code 1 when runPipeline throws
MainExit ==
  /\ main = "running"
  /\ pl[1].pc \in {"returned", "thrown"}
  /\ main' = IF pl[1].pc = "thrown" THEN "exit 1" ELSE "exit 0"
  /\ UNCHANGED <<now, env, pl, resultFile, lastRunFile, sched, inv, server>>

\* the clock advances while the run is suspended in a request; the statements
\* between two requests run to completion within MsSteps
TickMain ==
  /\ main = "running"
  /\ pl[1].pc \in {"newsWait", "mediaWait"}
  /\ now < StartTime + MaxTicks * OneHour
  /\ now' = now + OneHour
  /\ UNCHANGED <<env, pl, resultFile, lastRunFile, sched, inv, main, server>>

\* what a run from the command line may meet
MainNewsEvents == NewsEvents(Items, MaxItems)
\* the advances between the clock reads of one collectNews: at most one
\* millisecond boundary falls within the run
MainClocks == {ds \in [1..3 -> MsSteps] : SeqSum(ds) <= 1}
MainMediaEvents == MediaEvents(MaxPhotos)
Intros == 1..NumIntros
Outros == 1..NumOutros

NextMain ==
  \/ Stage(1, MainNewsEvents, MainMediaEvents, MainClocks, Intros, Outros)
  \/ MainExit
  \/ TickMain

SpecMain == InitMain /\ [][NextMain]_vars

----------------------------------------------------------------------------
\* scheduler.js

\* last_run.json that does not parse (truncated, or not JSON)
CorruptLastRun == [NoLastRun EXCEPT !.kind = "corrupt"]

\* saveLastRun: {timestamp, status, duration, video_url}
runInfo(results, t) ==
  [ kind |-> "record", timestamp |-> t, status |-> results.status,
    duration |-> results.total_duration_seconds,
    video_url |-> {o.video_url : o \in results.final_outputs} ]

\* getLastRunInfo: null (FALSE) when the file cannot be read or parsed
HasLastRunInfo(file) == file.kind = "record"

twoHours == 2 * 60 * 60 * 1000

\* mutant: the period of the timer is the cooldown of the gate
fourHoursAsTwo == 2 * 60 * 60 * 1000

fourHours == 4 * 60 * 60 * 1000

\* mutant: the gate forgets the status of the last run
shouldRunNowAnyStatus(file, t) ==
  IF ~HasLastRunInfo(file) THEN TRUE
  ELSE IF t - file.timestamp < twoHours THEN FALSE ELSE TRUE

shouldRunNow(file, t) ==
  IF ~HasLastRunInfo(file) THEN TRUE
  ELSE LET timeSinceLast == t - file.timestamp IN
       IF timeSinceLast < twoHours /\ file.status = "completed" THEN FALSE ELSE TRUE

\* runScheduledVideoGeneration up to its first await: the gate, then the
\* constructor and the call of runPipeline
BeginInvocation(i) ==
  LET go == shouldRunNow(lastRunFile, now) IN
  /\ inv' = [inv EXCEPT ![i] = [NoInvocation EXCEPT
                                  !.pc = IF go THEN "running" ELSE "done",
                                  !.gate = go, !.gateAt = now, !.seen = lastRunFile,
                                  !.outcome = IF go THEN "" ELSE "skipped"]]
  /\ pl' = IF go THEN [pl EXCEPT ![i] = SpacePipeline(now, FALSE)] ELSE pl

\* startScheduler, lines 75-83
StartScheduler ==
  /\ sched.pc = "start"
  /\ IF ~HasLastRunInfo(lastRunFile)
       THEN /\ BeginInvocation(1)
            /\ sched' = [sched EXCEPT !.pc = "awaitInitial", !.count = 1]
       ELSE /\ sched' = [sched EXCEPT !.pc = "timer", !.nextFire = now + fourHours,
                                      !.hadLastRun = TRUE, !.setAt = now]
            /\ UNCHANGED <<inv, pl>>
  /\ UNCHANGED <<now, env, resultFile, lastRunFile, main, server>>

\* startScheduler, lines 85-90, once the awaited first run has settled
SetInterval ==
  /\ sched.pc = "awaitInitial"
  /\ inv[1].pc = "done"
  /\ sched' = [sched EXCEPT !.pc = "timer", !.nextFire = now + fourHours, !.setAt = now]
  /\ UNCHANGED <<now, env, pl, resultFile, lastRunFile, inv, main, server>>

\* every run in flight is suspended in a network request
Suspended ==
  /\ sched.pc \in {"awaitInitial", "timer"}
  /\ \A i \in Ids : inv[i].pc = "running" => pl[i].pc \in {"newsWait", "mediaWait"}
  /\ ~(sched.pc = "awaitInitial" /\ inv[1].pc = "done")

TimerDue == sched.pc = "timer" /\ now >= sched.nextFire

\* the setInterval callback, lines 86-88: it does not look at earlier invocations
TimerFire ==
  /\ TimerDue
  /\ Suspended
  /\ sched.count < MaxInv
  /\ BeginInvocation(sched.count + 1)
  /\ sched' = [sched EXCEPT !.count = @ + 1, !.nextFire = @ + fourHours]
  /\ UNCHANGED <<now, env, resultFile, lastRunFile, main, server>>

\* lines 58-68: runPipeline returned; saveLastRun may fail to write, which the
\* catch of line 70 swallows
InvocationReturn(i) ==
  /\ Turn(i)
  /\ inv[i].pc = "running"
  /\ pl[i].pc = "returned"
  /\ \/ /\ lastRunFile' = runInfo(pl[i].results, now)
        /\ inv' = [inv EXCEPT ![i].pc = "done", ![i].outcome = "returned",
                              ![i].runStatus = pl[i].results.status, ![i].saved = TRUE]
     \/ /\ lastRunFile' \in {lastRunFile, CorruptLastRun}
        /\ inv' = [inv EXCEPT ![i].pc = "done", ![i].outcome = "returned",
                              ![i].runStatus = pl[i].results.status]
  /\ pl' = [pl EXCEPT ![i] = NoPipeline]
  /\ UNCHANGED <<now, env, resultFile, sched, main, server>>

\* mutant: the catch block saves the failed run
InvocationCatchSaves(i) ==
  /\ Turn(i)
  /\ inv[i].pc = "running"
  /\ pl[i].pc = "thrown"
  /\ lastRunFile' = runInfo(pl[i].results, now)
  /\ inv' = [inv EXCEPT ![i].pc = "done", ![i].outcome = "threw",
                        ![i].runStatus = pl[i].results.status, ![i].saved = TRUE]
  /\ pl' = [pl EXCEPT ![i] = NoPipeline]
  /\ UNCHANGED <<now, env, resultFile, sched, main, server>>

\* lines 70-72: runPipeline threw; the error is logged and nothing is saved
InvocationCatch(i) ==
  /\ Turn(i)
  /\ inv[i].pc = "running"
  /\ pl[i].pc = "thrown"
  /\ inv' = [inv EXCEPT ![i].pc = "done", ![i].outcome = "threw",
                        ![i].runStatus = pl[i].results.status]
  /\ pl' = [pl EXCEPT ![i] = NoPipeline]
  /\ UNCHANGED <<now, env, resultFile, lastRunFile, sched, main, server>>

\* hours pass only while nothing is runnable; a due timer fires first
TickSched ==
  /\ Suspended
  /\ ~TimerDue
  /\ now < StartTime + MaxSchedTicks * OneHour
  /\ now' = now + OneHour
  /\ UNCHANGED <<env, pl, resultFile, lastRunFile, sched, inv, main, server>>

\* a run under the scheduler: every stage of runPipeline but the health check
Run(i, newsEvents, mediaEvents, clocks, intros, outros) ==
  \/ ValidateEnv(i)
  \/ NewsRequest(i)
  \/ NewsSettle(i, newsEvents, clocks)
  \/ GenerateScript(i, intros, outros)
  \/ MediaStart(i)
  \/ MediaSettle(i, mediaEvents)
  \/ GenerateTTS(i)
  \/ ProduceVideo(i)
  \/ Complete(i)
  \/ SaveResults(i)
  \/ Catch(i)

SchedNewsEvents ==
  { NetError,
    NetResponse(200, TRUE, NewsBody("success", "array", <<Item("Artemis", "NASA", Newer)>>)) }

SchedMediaEvents ==
  { NetTimeout, NetResponse(200, TRUE, MediaBody("array", GoodPhotos(1))) }

\* under the scheduler the clock reads of one statement run agree, and
\* Math.random picks the first intro and the last outro
\* the scheduled runs read one clock value within a statement run
SchedClocks == {<< >>}
SchedIntros == {1}
SchedOutros == {NumOutros}

SchedEnvs ==
  { [k \in Keys |-> "unset"],
    [k \in Keys |-> IF k = "PEXELS_API_KEY" THEN "real" ELSE "unset"] }

\* last_run.json found at start: none, unreadable, or a record of an earlier process
InitialLastRuns ==
  {NoLastRun, CorruptLastRun}
  \cup { [NoLastRun EXCEPT !.kind = "record", !.timestamp = StartTime - h * OneHour,
                           !.status = st]
         : h \in {0, 1, 3}, st \in {"completed", "failed"} }

InitSched ==
  /\ now = StartTime
  /\ env \in SchedEnvs
  /\ pl = [i \in Ids |-> NoPipeline]
  /\ resultFile = << >>
  /\ lastRunFile \in InitialLastRuns
  /\ sched = [SchedulerOff EXCEPT !.pc = "start"]
  /\ inv = [i \in Ids |-> NoInvocation]
  /\ main = "scheduler"
  /\ server = NoServer

NextSched ==
  \/ StartScheduler
  \/ SetInterval
  \/ TimerFire
  \/ TickSched
  \/ \E i \in Ids :
       \/ Run(i, SchedNewsEvents, SchedMediaEvents, SchedClocks, SchedIntros, SchedOutros)
       \/ InvocationReturn(i)
       \/ InvocationCatch(i)

SpecSched == InitSched /\ [][NextSched]_vars

----------------------------------------------------------------------------
\* shouldRunNow called on its own, on any last_run.json and at any time

HalfHour == 30 * 60 * 1000

\* oldest record, in half hours before the start
MaxAge == 7
\* half-hour clock advances
MaxGateTicks == 3

GateFiles ==
  {NoLastRun, CorruptLastRun}
  \cup { [NoLastRun EXCEPT !.kind = "record", !.timestamp = StartTime - k * HalfHour,
                           !.status = st]
         : k \in (0 - 1)..MaxAge, st \in {"completed", "failed"} }

InitGate ==
  /\ now = StartTime
  /\ env = [k \in Keys |-> "unset"]
  /\ pl = [i \in Ids |-> NoPipeline]
  /\ resultFile = << >>
  /\ lastRunFile \in GateFiles
  /\ sched = SchedulerOff
  /\ inv = [i \in Ids |-> NoInvocation]
  /\ main = "gate"
  /\ server = NoServer

CallShouldRunNow ==
  /\ main = "gate"
  /\ inv' = [inv EXCEPT ![1] = [NoInvocation EXCEPT
                                  !.pc = "done", !.outcome = "gate only",
                                  !.gate = shouldRunNow(lastRunFile, now),
                                  !.gateAt = now, !.seen = lastRunFile]]
  /\ UNCHANGED <<now, env, pl, resultFile, lastRunFile, sched, main, server>>

TickGate ==
  /\ main = "gate"
  /\ now < StartTime + MaxGateTicks * HalfHour
  /\ now' = now + HalfHour
  /\ UNCHANGED <<env, pl, resultFile, lastRunFile, sched, inv, main, server>>

NextGate == CallShouldRunNow \/ TickGate

SpecGate == InitGate /\ [][NextGate]_vars

----------------------------------------------------------------------------
\* collectNews called on longer article lists, with published times that are
\* missing, equal, different or unparseable

\* longest article list
MaxSortItems == 6

SortItems ==
  { Item("", "", NoDate), Item("", "", Older), Item("", "", Newer),
    Item("", "", InvalidDate) }

SortNewsEvents ==
  { NetResponse(200, TRUE, NewsBody("success", "array", s))
      : s \in SeqsUpTo(SortItems, MaxSortItems) }

InitNews ==
  /\ now = StartTime
  /\ env = [k \in Keys |-> "unset"]
  /\ pl = [i \in Ids |-> IF i = 1 THEN SpacePipeline(StartTime, FALSE) ELSE NoPipeline]
  /\ resultFile = << >>
  /\ lastRunFile = NoLastRun
  /\ sched = SchedulerOff
  /\ inv = [i \in Ids |-> NoInvocation]
  /\ main = "news"
  /\ server = NoServer

NextNews ==
  \/ ValidateEnv(1)
  \/ NewsRequest(1)
  \/ NewsSettle(1, SortNewsEvents, SchedClocks)

SpecNews == InitNews /\ [][NextNews]_vars

----------------------------------------------------------------------------
\* makeHttpRequest called on its own, on whatever the network may do

StatusCodes ==
  {200, 201, 202, 204, 206, 301, 302, 304, 399, 400, 401, 403, 404, 429, 500, 503}

HttpBodies ==
  { NewsNull,
    NewsBody("success", "array", << >>),
    NewsBody("success", "array", <<Item("Artemis", "NASA", Newer)>>),
    NewsBody("error", "missing", << >>),
    MediaBody("missing", << >>),
    MediaBody("array", GoodPhotos(1)) }

HttpEvents ==
  {NetError, NetTimeout}
  \cup {NetAborted(c) : c \in StatusCodes}
  \cup {NetResponse(c, FALSE, RawText) : c \in StatusCodes}
  \cup {NetResponse(c, TRUE, b) : c \in StatusCodes, b \in HttpBodies}

InitHttp ==
  /\ now = StartTime
  /\ env = [k \in Keys |-> "unset"]
  /\ pl = [i \in Ids |-> IF i = 1 THEN [NoPipeline EXCEPT !.pc = "request"] ELSE NoPipeline]
  /\ resultFile = << >>
  /\ lastRunFile = NoLastRun
  /\ sched = SchedulerOff
  /\ inv = [i \in Ids |-> NoInvocation]
  /\ main = "http"
  /\ server = NoServer

\* lines 562-623: the promise is created and the request sent
HttpSend(i) ==
  /\ pl[i].pc = "request"
  /\ pl' = [pl EXCEPT ![i].sent = Append(@, "http"), ![i].outstanding = @ + 1,
                      ![i].pc = "httpWait"]
  /\ UNCHANGED <<now, env, resultFile, lastRunFile, sched, inv, main, server>>

\* the first callback that calls resolve or reject runs: the caller resumes
\* with the outcome
HttpSettle(i, events) ==
  /\ pl[i].pc = "httpWait"
  /\ \E ev \in events :
       pl' = [pl EXCEPT ![i].event = <<ev>>,
                        ![i].response = Callback(@, ev),
                        ![i].outstanding = @ - 1,
                        ![i].pc = "settled"]
  /\ UNCHANGED <<now, env, resultFile, lastRunFile, sched, inv, main, server>>

\* callbacks that run after the promise has settled
MaxLateEvents == 2

\* every callback can also run late
LateCallbacks == HttpEvents

\* What can still happen to a settled request.  makeHttpRequest removes no
\* listener and keeps no record of the settlement, so each handler it has
\* registered runs when the runtime emits its event, whatever ran before: the
\* 'timeout' handler (lines 614-617), the 'error' handler of the request (lines
\* 610-612), and, for a response of a status below 400, the handlers of 'end'
\* (lines 592-603) and of the response's 'error' (lines 605-607).  Each runs at
\* most once.  A request has one response: the response callback runs once, and
\* for a status of 400 or more it returns at line 585 before any handler of the
\* response is registered, so nothing of that response runs after it.
CanFollow(p, ev) ==
  LET all == p.event \o p.late
      seen == {all[k] : k \in 1..Len(all)}
  IN  /\ \A e \in seen : e.type # ev.type
      /\ ev.type \in {"response", "aborted"} =>
           \A e \in seen :
             e.type \in {"response", "aborted"} =>
               e.statusCode = ev.statusCode /\ ev.statusCode < 400

\* a late callback calls resolve or reject on the settled promise
HttpLate(i, events) ==
  /\ pl[i].pc = "settled"
  /\ Len(pl[i].late) < MaxLateEvents
  /\ \E ev \in events :
       /\ CanFollow(pl[i], ev)
       /\ pl' = [pl EXCEPT ![i].late = Append(@, ev),
                           ![i].response = Callback(@, ev)]
  /\ UNCHANGED <<now, env, resultFile, lastRunFile, sched, inv, main, server>>

NextHttp == HttpSend(1) \/ HttpSettle(1, HttpEvents) \/ HttpLate(1, LateCallbacks)

SpecHttp == InitHttp /\ [][NextHttp]_vars

----------------------------------------------------------------------------
\* healthCheck called on one instance, more than once

\* calls of healthCheck on the instance
MaxHealthCalls == 2
\* clock advances (ms) between the calls
MaxHealthTicks == 1

InitHealth ==
  /\ now = StartTime
  /\ env \in [Keys -> KeyKinds]
  /\ pl = [i \in Ids |-> IF i = 1
                           THEN [SpacePipeline(StartTime, TRUE) EXCEPT !.pc = "healthCheck"]
                           ELSE NoPipeline]
  /\ resultFile = << >>
  /\ lastRunFile = NoLastRun
  /\ sched = SchedulerOff
  /\ inv = [i \in Ids |-> NoInvocation]
  /\ main = "health"
  /\ server = NoServer

\* lines 955-959: a call of healthCheck; validateEnvironment logs its step and
\* the call is suspended at the await of line 959 with its promise pending, so
\* that another call can start before this one resumes
CallHealthCheck(i) ==
  /\ pl[i].pc = "healthCheck"
  /\ Len(pl[i].calls) + pl[i].awaiting < MaxHealthCalls
  /\ pl' = [pl EXCEPT ![i].results = validateEnvironment(@, env, now),
                      ![i].awaiting = @ + 1]
  /\ UNCHANGED <<now, env, resultFile, lastRunFile, sched, inv, main, server>>

\* lines 960-975: the suspended call that started first resumes; the service
\* flags are read from the configuration and the conjunction is returned
ResumeHealthCheck(i) ==
  /\ pl[i].pc = "healthCheck"
  /\ pl[i].awaiting > 0
  /\ pl' = [pl EXCEPT ![i].healthy = healthCheckResult(env),
                      ![i].calls = Append(@, healthCheckResult(env)),
                      ![i].awaiting = @ - 1]
  /\ UNCHANGED <<now, env, resultFile, lastRunFile, sched, inv, main, server>>

TickHealth ==
  /\ main = "health"
  /\ now < StartTime + MaxHealthTicks
  /\ now' = now + 1
  /\ UNCHANGED <<env, pl, resultFile, lastRunFile, sched, inv, main, server>>

NextHealth == CallHealthCheck(1) \/ ResumeHealthCheck(1) \/ TickHealth

SpecHealth == InitHealth /\ [][NextHealth]_vars

----------------------------------------------------------------------------
\* The news service (src/news-server.js)

\* A request target (req.url) is a sequence of tokens: "/" separates path
\* segments, "?" starts the query, "." and ".." are dots, the others are words.
UrlTokens == {"/", "?", ".", "..", "health", "scrape-news", "video"}

\* tokens of a request target after its leading "/"
MaxUrlLen == 1
\* requests the service receives
MaxRequests == 2
\* calls of start() on one NewsServer
MaxStarts == 2
\* the programs that run a NewsServer: the file run directly (lines 129-140),
\* or a program that requires the class and calls start() and stop() itself
ServerPrograms == {"news-server", "library"}

Methods == {"GET", "POST", "OPTIONS"}

\* the part of the target before the query
BeforeQuery(s) ==
  IF \E k \in 1..Len(s) : s[k] = "?"
    THEN SubSeq(s, 1, (CHOOSE k \in 1..Len(s) : s[k] = "?" /\ \A j \in 1..(k - 1) : s[j] # "?") - 1)
    ELSE s

\* leading "/" tokens are dropped
RECURSIVE SkipSlashes(_)
SkipSlashes(s) == IF s # << >> /\ Head(s) = "/" THEN SkipSlashes(Tail(s)) ELSE s

SingleDot(buffer) == buffer = <<".">>
DoubleDot(buffer) == buffer \in {<<"..">>, <<".", ".">>}

\* URL path state: a segment ends at "/" or at the end of the input; ".."
\* removes the last segment, "." adds none, and either one at the very end
\* leaves an empty last segment
EndSegment(path, buffer, atEnd) ==
  IF DoubleDot(buffer)
    THEN LET shortened == IF path = << >> THEN path ELSE SubSeq(path, 1, Len(path) - 1)
         IN  IF atEnd THEN Append(shortened, << >>) ELSE shortened
    ELSE IF SingleDot(buffer)
      THEN IF atEnd THEN Append(path, << >>) ELSE path
      ELSE Append(path, buffer)

RECURSIVE PathState(_, _, _)
PathState(path, buffer, rest) ==
  IF rest = << >> THEN EndSegment(path, buffer, TRUE)
  ELSE IF Head(rest) = "/" THEN PathState(EndSegment(path, buffer, FALSE), << >>, Tail(rest))
  ELSE PathState(path, Append(buffer, Head(rest)), Tail(rest))

\* the host of a target that starts with "//": the tokens up to the next "/"
RECURSIVE HostOf(_)
HostOf(s) == IF s = << >> \/ Head(s) = "/" THEN << >> ELSE <<Head(s)>> \o HostOf(Tail(s))

\* line 53: new URL(req.url, `http://localhost:${this.port}`) for a target that
\* starts with "/".  A second "/" makes the target scheme-relative: further
\* slashes are skipped and the host follows, and an empty host is an invalid
\* URL (TypeError).  pathname is the list of segments; <<<< >>>> is "/".
ParseUrl(target) ==
  LET s == BeforeQuery(target)
      afterSlash == Tail(s)
  IN  IF afterSlash # << >> /\ Head(afterSlash) = "/"
        THEN LET authority == SkipSlashes(afterSlash)
                 host == HostOf(authority)
                 rest == SubSeq(authority, Len(host) + 1, Len(authority))
             IN  IF host = << >>
                   THEN [valid |-> FALSE, pathname |-> << >>]
                   ELSE [valid |-> TRUE,
                         pathname |-> PathState(<< >>, << >>,
                                                IF rest = << >> THEN rest ELSE Tail(rest))]
        ELSE [valid |-> TRUE, pathname |-> PathState(<< >>, << >>, afterSlash)]

Root == <<<< >>>>
HealthPath == <<<<"health">>>>
ScrapeNewsPath == <<<<"scrape-news">>>>

\* lines 48-51: the headers set on every response object
CorsHeaders ==
  [AccessControlAllowOrigin |-> "*",
   AccessControlAllowMethods |-> "GET, POST, OPTIONS",
   AccessControlAllowHeaders |-> "Content-Type",
   ContentType |-> "application/json"]

\* lines 12-44: five articles
NumGenerated == 5

\* response bodies: the JSON envelope, or nothing
NoBody == [status |-> "", message |-> "", data |-> "", articles |-> 0]
SuccessMessage(text) == [status |-> "success", message |-> "", data |-> text, articles |-> 0]
SuccessNews == [status |-> "success", message |-> "", data |-> "", articles |-> NumGenerated]
ErrorEnvelope(text) == [status |-> "error", message |-> text, data |-> "", articles |-> 0]

\* res.writeHead(code); res.end(body)
Response(code, body) == [statusCode |-> code, headers |-> CorsHeaders, body |-> body]

\* lines 57-88 with /health left out of the routes
TryBlockNoHealth(method, pathname) ==
  IF method = "OPTIONS" THEN [raised |-> FALSE, responses |-> <<Response(200, NoBody)>>]
  ELSE IF pathname = Root
    THEN [raised |-> FALSE, responses |-> <<Response(200, SuccessMessage("Server is running"))>>]
  ELSE IF pathname = ScrapeNewsPath
    THEN [raised |-> FALSE, responses |-> <<Response(200, SuccessNews)>>]
  ELSE [raised |-> FALSE, responses |-> <<Response(404, ErrorEnvelope("Not found"))>>]

\* lines 57-88: the try block.  None of its statements raises: the method and
\* the pathname are strings, generateSpaceNews builds plain objects, and the
\* response is fresh when writeHead and end are called.
TryBlock(method, pathname) ==
  IF method = "OPTIONS" THEN [raised |-> FALSE, responses |-> <<Response(200, NoBody)>>]
  ELSE IF pathname = Root
    THEN [raised |-> FALSE, responses |-> <<Response(200, SuccessMessage("Server is running"))>>]
  ELSE IF pathname = HealthPath
    THEN [raised |-> FALSE, responses |-> <<Response(200, SuccessMessage("ok"))>>]
  ELSE IF pathname = ScrapeNewsPath
    THEN [raised |-> FALSE, responses |-> <<Response(200, SuccessNews)>>]
  ELSE [raised |-> FALSE, responses |-> <<Response(404, ErrorEnvelope("Not found"))>>]

\* lines 46-97: the URL is parsed before the try block, so an invalid URL
\* leaves handleRequest as an uncaught TypeError; an error inside the try
\* block is answered with 500
handleRequest(req) ==
  LET url == ParseUrl(req.url) IN
  IF ~url.valid THEN [uncaught |-> TRUE, responses |-> << >>]
  ELSE LET attempt == TryBlock(req.method, url.pathname) IN
       IF attempt.raised
         THEN [uncaught |-> FALSE,
               responses |-> Append(attempt.responses,
                                    Response(500, ErrorEnvelope("Internal server error")))]
         ELSE [uncaught |-> FALSE, responses |-> attempt.responses]

Targets == {<<"/">> \o u : u \in SeqsUpTo(UrlTokens, MaxUrlLen)}
Requests == [method : Methods, url : Targets]

InitServer ==
  /\ now = StartTime
  /\ env = [k \in Keys |-> "unset"]
  /\ pl = [i \in Ids |-> NoPipeline]
  /\ resultFile = << >>
  /\ lastRunFile = NoLastRun
  /\ sched = SchedulerOff
  /\ inv = [i \in Ids |-> NoInvocation]
  /\ main \in ServerPrograms
  /\ server = NoServer

\* some http.Server created by start() holds the port: the one this.server
\* names, or an earlier one that start() replaced without closing it
PortHeld == server.state = "listening" \/ server.orphan

\* lines 99-118: start() creates a new http.Server, stores it in this.server in
\* place of the one before, and has it listen; the port is bound, or it cannot
\* be and the 'error' handler logs it. A server of this object that still
\* listens keeps the port, so the new one fails and the old one goes on
\* answering. lines 129-132: the file run as a program calls start() once;
\* after a listen error nothing keeps its event loop alive and the process
\* ends with code 0. A program that requires the class calls start() when it
\* chooses, any number of times.
StartServer ==
  /\ main \in ServerPrograms
  /\ server.state # "crashed"
  /\ server.starts < MaxStarts
  /\ main = "news-server" => server.state = "none"
  /\ \E outcome \in {"listening", "listen error"} :
       /\ PortHeld => outcome = "listen error"
       /\ server' = [server EXCEPT !.state = outcome,
                                   !.orphan = PortHeld,
                                   !.starts = @ + 1]
       /\ main' = IF main = "news-server" /\ outcome = "listen error"
                    THEN "exit 0" ELSE main
  /\ UNCHANGED <<now, env, pl, resultFile, lastRunFile, sched, inv>>

\* a client opens a connection to a server that holds the port (to any other
\* the connection is refused)
Connect ==
  /\ main \in ServerPrograms
  /\ PortHeld
  /\ ~server.connected
  /\ server' = [server EXCEPT !.connected = TRUE]
  /\ UNCHANGED <<now, env, pl, resultFile, lastRunFile, sched, inv, main>>

\* lines 100-102: a request arrives on an open connection and handleRequest
\* runs to its end, also after stop() when the connection was opened before
\* it; the process has no handler for an uncaught exception, so one ends the
\* process and the request is never answered
ReceiveRequest(requests) ==
  /\ main \in ServerPrograms
  /\ server.connected
  /\ server.received < MaxRequests
  /\ \E req \in requests :
       LET handled == handleRequest(req) IN
       /\ server' = [server EXCEPT
                       !.state = IF handled.uncaught THEN "crashed" ELSE @,
                       !.orphan = IF handled.uncaught THEN FALSE ELSE @,
                       !.connected = IF handled.uncaught THEN FALSE ELSE @,
                       !.received = @ + 1,
                       !.request = <<req>>,
                       !.responses = handled.responses]
       /\ main' = IF handled.uncaught THEN "exit 1" ELSE main
  /\ UNCHANGED <<now, env, pl, resultFile, lastRunFile, sched, inv>>

\* lines 120-125: stop() closes the server this.server names, which then
\* accepts no new connection; an open connection stays open, or is closed as
\* idle where the runtime's close() does that; a server that start() replaced
\* is not closed and keeps its connections. The program run from the file calls
\* stop() in its SIGINT handler only.
StopServer ==
  /\ main = "library"
  /\ server.state \in {"listening", "listen error"}
  /\ \E open \in BOOLEAN :
       /\ open => server.connected
       /\ server.orphan => open = server.connected
       /\ server' = [server EXCEPT !.state = "stopped", !.connected = open]
  /\ UNCHANGED <<now, env, pl, resultFile, lastRunFile, sched, inv, main>>

\* lines 134-138: the SIGINT handler of the started process calls stop() and
\* exits with code 0
Sigint ==
  /\ main = "news-server"
  /\ server.state = "listening"
  /\ server' = [server EXCEPT !.state = "stopped", !.connected = FALSE]
  /\ main' = "exit 0"
  /\ UNCHANGED <<now, env, pl, resultFile, lastRunFile, sched, inv>>

NextServer ==
  StartServer \/ Connect \/ ReceiveRequest(Requests) \/ StopServer \/ Sigint

SpecServer == InitServer /\ [][NextServer]_vars

----------------------------------------------------------------------------
\* generateScript and generateTTS on article lists of every shape

\* articles handed to generateScript
MaxScriptArticles == 2

\* number of whitespace-delimited tokens of the strings the model uses
\* ("Lunar\tGateway" holds a tab, "Deep  Space" two spaces)
Words(str) ==
  CASE str = "" -> 0
    [] str \in {"Deep  Space", "Lunar\tGateway"} -> 2
    [] OTHER -> Spaces(str) + 1

IntroWords(i) == CASE i = 1 -> 13 [] i = 2 -> 9 [] OTHER -> 11
OutroWords(i) == CASE i = 1 -> 12 [] OTHER -> 11

\* "Story", "k:", "T.", "This", "update", "comes", "from", "S."; an empty
\* title or source leaves the "." as a token
SegmentWords(a) ==
  6 + (IF a.title = "" THEN 1 ELSE Words(a.title))
    + (IF a.source = "" THEN 1 ELSE Words(a.source))

\* the three sentences of the branch without articles
NoArticleWords == 9 + 12 + 12

\* script.split(/\s+/) without empty strings: the intro and the outro are
\* set off by "\n\n" or by " \n\n"
WhitespaceTokens(script) ==
  IntroWords(script.intro) + OutroWords(script.outro)
    + IF Len(script.segs) > 0
        THEN SeqSum([k \in 1..Len(script.segs) |-> SegmentWords(script.segs[k])])
        ELSE NoArticleWords

ScriptTitles == {"Artemis", "Mars Rover", "Deep  Space", "Lunar\tGateway"}
ScriptSources == {"NASA", "Space News"}

ScriptArticles ==
  SeqsUpTo([title : ScriptTitles, source : ScriptSources, published : {Newer}],
           MaxScriptArticles)

InitScript ==
  /\ now = StartTime
  /\ env \in {[k \in Keys |-> "unset"], [k \in Keys |-> IF k = "TTS_OPENAI_API_KEY" THEN "real" ELSE "unset"]}
  /\ \E articles \in ScriptArticles :
       pl = [i \in Ids |-> IF i = 1
                             THEN [SpacePipeline(StartTime, FALSE) EXCEPT
                                     !.pc = "generateScript", !.articles = articles]
                             ELSE NoPipeline]
  /\ resultFile = << >>
  /\ lastRunFile = NoLastRun
  /\ sched = SchedulerOff
  /\ inv = [i \in Ids |-> NoInvocation]
  /\ main = "script"
  /\ server = NoServer

NextScript ==
  \/ GenerateScript(1, Intros, Outros)
  \/ MediaStart(1)
  \/ GenerateTTS(1)

SpecScript == InitScript /\ [][NextScript]_vars

----------------------------------------------------------------------------
\* Properties

StepNames(results) == [k \in 1..Len(results.steps) |-> results.steps[k].step]

\* a pipeline that runPipeline has been called on without the health-check option
FullRun(i) == pl[i].pc # "none" /\ ~pl[i].healthCheck

Terminated(i) == pl[i].pc \in {"returned", "thrown"}

\* C1: the status of a RunRecord starts as 'running', changes once, to
\* 'completed' or to 'failed', and never changes after that.
StatusStepAllowed(old, new) ==
  \/ new = old
  \/ old = "running" /\ new \in {"completed", "failed"}

C1_StatusChangesOnce ==
  [][\A i \in Ids : FullRun(i) /\ pl'[i].pc # "none"
        => StatusStepAllowed(pl[i].results.status, pl'[i].results.status)]_vars

\* C2: an invocation that passed the gate and whose run failed has overwritten
\* last_run.json with a record of status 'failed'.
C2_FailedRunSaved ==
  \A i \in Ids :
    inv[i].pc = "done" /\ inv[i].gate /\ inv[i].runStatus = "failed"
      => inv[i].saved /\ lastRunFile.kind = "record" /\ lastRunFile.timestamp >= inv[i].gateAt

\* C3: at most one invocation of the scheduler awaits a pipeline run.
C3_NoOverlap == Cardinality({i \in Ids : inv[i].pc = "running"}) <= 1

\* C4: shouldRunNow is false exactly when a record exists, its status is
\* 'completed' and less than two hours have passed since its timestamp.
C4_Gate ==
  \A i \in Ids :
    inv[i].pc # "none" =>
      ( inv[i].gate = FALSE
          <=> /\ inv[i].seen.kind = "record"
              /\ inv[i].seen.status = "completed"
              /\ inv[i].gateAt - inv[i].seen.timestamp < 2 * OneHour )

\* the gate refused a run 30 minutes after a completed one, and let one pass
\* 30 minutes after a failed one
C4_Witness ==
  /\ inv[1].pc = "done" /\ ~inv[1].gate
  /\ inv[1].gateAt - inv[1].seen.timestamp = HalfHour

\* C5 as stated: every full run that has terminated has its RunRecord in the
\* result file.
C5_AlwaysPersisted ==
  \A i \in Ids : FullRun(i) /\ Terminated(i) => resultFile = <<pl[i].results>>

\* C5, amended: a full run that terminates has attempted the write; unless the
\* last write fails the file holds the record: 'completed' on return; on the
\* failure path 'failed', the caught error's message and the steps logged so
\* far followed by the failed 'Pipeline Execution' step, and the caught error
\* is the one raised.  When the write of the failure path fails, its own error
\* is raised and the failed record is not in the file.
C5_PersistedUnlessWriteFails ==
  [][\A i \in Ids :
       FullRun(i) /\ ~Terminated(i) /\ pl'[i].pc \in {"returned", "thrown"} =>
         LET old == pl[i].results
             new == pl'[i].results
         IN /\ pl'[i].pc = "returned" =>
                 /\ pl'[i].persisted /\ new.status = "completed"
                 /\ resultFile' = <<new>>
            /\ pl'[i].pc = "thrown" =>
                 /\ new.status = "failed" /\ new.error = {pl[i].caught}
                 /\ Len(new.steps) = Len(old.steps) + 1
                 /\ SubSeq(new.steps, 1, Len(old.steps)) = old.steps
                 /\ new.steps[Len(new.steps)].step = "Pipeline Execution"
                 /\ ~new.steps[Len(new.steps)].success
                 /\ pl'[i].persisted => resultFile' = <<new>> /\ pl'[i].thrown = pl[i].caught
                 /\ ~pl'[i].persisted =>
                      resultFile' \in FailedWrite(resultFile) /\ pl'[i].thrown = "write failed"
    ]_vars

\* a stage error was caught after two or more steps and its record persisted
C5_Witness ==
  /\ pl[1].pc = "thrown" /\ pl[1].persisted /\ pl[1].thrown = "TypeError"
  /\ Len(pl[1].results.steps) >= 3
  /\ resultFile = <<pl[1].results>>

\* C6: 'completed' implies final_outputs present and error absent, 'failed'
\* implies error present, for every record returned, thrown past or persisted.
RecordConsistent(r) ==
  /\ r.status = "completed" => r.final_outputs # {} /\ r.error = {}
  /\ r.status = "failed" => r.error # {}

C6_RecordConsistent ==
  /\ \A i \in Ids : FullRun(i) /\ Terminated(i) => RecordConsistent(pl[i].results)
  /\ \A k \in 1..Len(resultFile) : RecordConsistent(resultFile[k])

\* a failed record that also holds final_outputs was persisted and thrown past
C6_Witness ==
  /\ pl[1].pc = "thrown" /\ pl[1].results.status = "failed"
  /\ pl[1].results.final_outputs # {}
  /\ resultFile = <<pl[1].results>>

Started(i) == pl[i].pc \notin {"none", "runPipeline"}

LastStep(results) == results.steps[Len(results.steps)]

\* C7 as stated: steps is non-empty, strictly increasing in timestamp, and
\* ends with 'Video Production' when the status is 'completed'.
C7_StrictlyIncreasing ==
  \A i \in Ids : Started(i) =>
    LET r == pl[i].results IN
    /\ Len(r.steps) > 0
    /\ \A k \in 1..(Len(r.steps) - 1) : r.steps[k].timestamp < r.steps[k + 1].timestamp
    /\ r.status = "completed" => LastStep(r).step = "Video Production"

\* C7, amended: steps is non-empty, its timestamps never decrease in insertion
\* order (the clock not being set back), and it ends with 'Video Production'
\* when the status is 'completed'.
C7_NonDecreasing ==
  \A i \in Ids : Started(i) =>
    LET r == pl[i].results IN
    /\ Len(r.steps) > 0
    /\ \A k \in 1..(Len(r.steps) - 1) : r.steps[k].timestamp <= r.steps[k + 1].timestamp
    /\ r.status = "completed" => LastStep(r).step = "Video Production"

\* a completed run with two steps of one timestamp and two of different ones
C7_Witness ==
  LET r == pl[1].results IN
  /\ r.status = "completed" /\ pl[1].pc = "returned"
  /\ \E k \in 1..(Len(r.steps) - 1) : r.steps[k].timestamp = r.steps[k + 1].timestamp
  /\ \E k \in 1..(Len(r.steps) - 1) : r.steps[k].timestamp < r.steps[k + 1].timestamp

StageOrder ==
  << "Environment Validation", "News Collection", "Script Generation",
     "Media Collection", "TTS Generation", "Video Production" >>

\* C8: a run that reaches 'completed' holds exactly one StepLog per stage, in
\* the order of the stages.
C8_OneStepPerStage ==
  \A i \in Ids :
    FullRun(i) /\ pl[i].results.status = "completed" => StepNames(pl[i].results) = StageOrder

\* C9: whatever the collaborators answer, a run fails only when the result
\* file cannot be written.
C9_FailsOnlyOnWrite ==
  \A i \in Ids :
    FullRun(i) /\ pl[i].results.status = "failed" => pl[i].results.error = {"write failed"}

FallbackTitles ==
  { "NASA Artemis Mission Achieves Major Milestone",
    "SpaceX Launches Advanced Satellite Constellation",
    "James Webb Telescope Discovers Distant Galaxy" }

\* C10: when the news request is rejected, collectNews returns the three
\* placeholder articles in descending order of published, having appended one
\* 'News Collection' step with success true.
C10_FallbackOnFailure ==
  \A i \in Ids :
    pl[i].pc = "generateScript" /\ pl[i].response # << >> /\ ~pl[i].response[1].ok =>
      LET a == pl[i].articles
          r == pl[i].results
      IN /\ Len(a) = 3
         /\ {a[k].title : k \in 1..Len(a)} = FallbackTitles
         /\ \A k \in 1..(Len(a) - 1) : a[k].published >= a[k + 1].published
         /\ LastStep(r).step = "News Collection" /\ LastStep(r).success
         /\ Cardinality({k \in 1..Len(r.steps) : r.steps[k].step = "News Collection"}) = 1

\* an HTTP error status was answered and the sort moved the last placeholder first
C10_Witness ==
  /\ pl[1].pc = "generateScript" /\ pl[1].response # << >>
  /\ pl[1].response[1].message = "HTTP error status"
  /\ pl[1].articles[1].title = "James Webb Telescope Discovers Distant Galaxy"

\* the news collaborator answered 200 with status 'success' and an empty array
EmptyNewsAnswer(resp) ==
  /\ resp.ok /\ resp.status = 200 /\ resp.data.kind = "obj"
  /\ resp.data.status = "success" /\ resp.data.dkind = "array" /\ resp.data.items = << >>

\* C11: when the news collaborator answers successfully with an empty article
\* list, collectNews returns the placeholder articles and not an empty list.
C11_EmptySubstituted ==
  \A i \in Ids :
    pl[i].pc = "generateScript" /\ pl[i].response # << >>
      /\ EmptyNewsAnswer(pl[i].response[1])
    => /\ pl[i].articles # << >>
       /\ {pl[i].articles[k].title : k \in 1..Len(pl[i].articles)} = FallbackTitles

\* collectNews returned the list it made of the collaborator's answer
ReturnedRealNews(p) ==
  /\ p.pc = "generateScript" /\ p.response # << >>
  /\ LastStep(p.results).details.successful_feeds = "flask_service"

\* the articles of a, or of the answer's items, published at v or later
PublishedFrom(a, v) ==
  Cardinality({k \in 1..Len(a) : a[k].published # InvalidDate /\ a[k].published >= v})

\* the articles returned are the first five of the answer's list put in
\* descending order of published
TopFiveNewest(p) ==
  LET a == p.articles
      items == p.response[1].data.items
      all == [k \in 1..Len(items) |-> ToArticle(items[k], LastStep(p.results).timestamp)]
  IN /\ Len(a) = Min(5, Len(items))
     /\ \A j, k \in 1..Len(a) :
          j < k /\ a[j].published # InvalidDate /\ a[k].published # InvalidDate
            => a[j].published >= a[k].published
     /\ \A k \in 1..Len(all) :
          all[k].published # InvalidDate =>
            PublishedFrom(a, all[k].published) = Min(5, PublishedFrom(all, all[k].published))

\* C12: collectNews returns at most 5 articles of the list the collaborator
\* answered, in descending order of published, and they are the most recently
\* published ones of that list.
C12_TopFiveNewest ==
  \A i \in Ids : ReturnedRealNews(pl[i]) => TopFiveNewest(pl[i])

\* what holds of the sort: the same, for the answers whose published times all
\* parse as dates
ParseableNewsSorted ==
  \A i \in Ids :
    ReturnedRealNews(pl[i])
      /\ (\A k \in 1..Len(pl[i].response[1].data.items) :
            pl[i].response[1].data.items[k].published # InvalidDate)
    => TopFiveNewest(pl[i])

\* collectMedia has returned its list to runPipeline
ReturnedMedia(p) == p.pc = "generateTTS"

FallbackSources == {"curated", "simulated"}

\* collectMedia has just run to its end, by a return to runPipeline or by an
\* exception that runPipeline is about to catch: its step is the last of the
\* log (logStep pushes the step before it prints the details)
MediaEnded(p) ==
  /\ p.pc \in {"generateTTS", "catch"}
  /\ Len(p.results.steps) > 0
  /\ LastStep(p.results).step = "Media Collection"

\* C13: every execution of collectMedia, whatever the credentials and whatever
\* the image collaborator returns or raises, returns a list of at least 5
\* items, and when fewer than 5 of them are the real collaborator's, every
\* other item bears a fallback marker.
C13_EveryExecution ==
  \A i \in Ids : MediaEnded(pl[i]) =>
    LET media == pl[i].media
        real == CountSource(media, {"pexels"})
    IN /\ Len(media) >= 5
       /\ real < 5 =>
            \A k \in 1..Len(media) :
              media[k].source # "pexels" => media[k].source \in FallbackSources

\* what holds of collectMedia: when it returns, the list has at least 5
\* items; items bear the real collaborator's marker only when it answered, and
\* when fewer than 5 do, every other item bears a fallback marker and they
\* fill the list to 5 or more.
C13_AtLeastFive ==
  \A i \in Ids : ReturnedMedia(pl[i]) =>
    LET media == pl[i].media
        real == CountSource(media, {"pexels"})
    IN /\ Len(media) >= 5
       /\ real > 0 => /\ ConfigSet(env, "PEXELS_API_KEY")
                      /\ pl[i].response # << >> /\ pl[i].response[1].ok
       /\ real < 5 =>
            /\ \A k \in 1..Len(media) :
                 media[k].source # "pexels" => media[k].source \in FallbackSources
            /\ CountSource(media, FallbackSources) >= 5 - real

\* two items came from the image collaborator and five fallback items fill the list
C13_Witness ==
  /\ ReturnedMedia(pl[1])
  /\ CountSource(pl[1].media, {"pexels"}) = 2
  /\ CountSource(pl[1].media, FallbackSources) = 5

\* C14: makeHttpRequest settles every request as exactly one of: resolved with
\* {status, data} of a status below 400 (data being the parsed body, or the raw
\* text when the body is not JSON), rejected for a connection-level error,
\* rejected for the timeout, rejected for a status of 400 or more.
C14_Settles ==
  \A i \in Ids : pl[i].pc = "settled" =>
    LET ev == pl[i].event[1]
        r == pl[i].response[1]
    IN /\ pl[i].outstanding = 0
       /\ r.ok => r.status < 400
       /\ r.ok <=> (ev.type = "response" /\ ev.statusCode < 400)
       /\ r.ok => /\ r.status = ev.statusCode
                  /\ r.data = IF ev.json THEN ev.value ELSE RawText
       /\ ~r.ok =>
            r.message =
              CASE ev.type = "timeout" -> "Request timeout"
                [] ev.type = "error" -> "Request error"
                [] ev.statusCode >= 400 -> "HTTP error status"
                [] OTHER -> "Response error"

\* a body that is not JSON, on status 200, was resolved as raw text
C14_Witness ==
  /\ pl[1].pc = "settled"
  /\ pl[1].event[1] = NetResponse(200, FALSE, RawText)
  /\ pl[1].response[1].ok /\ pl[1].response[1].data = RawText

RequestsTo(p, collaborator) ==
  Cardinality({k \in 1..Len(p.sent) : p.sent[k] = collaborator})

\* C15: within one run the news collaborator and the image collaborator are
\* each requested at most once, no other collaborator is requested, and a
\* request that failed is not issued again.
C15_OneRequestEach ==
  \A i \in Ids : pl[i].pc # "none" =>
    /\ RequestsTo(pl[i], "news") <= 1
    /\ RequestsTo(pl[i], "pexels") <= 1
    /\ \A k \in 1..Len(pl[i].sent) : pl[i].sent[k] \in {"news", "pexels"}
    /\ Terminated(i) /\ ~pl[i].healthCheck => RequestsTo(pl[i], "news") = 1
    /\ RequestsTo(pl[i], "pexels") = 1 => ConfigSet(env, "PEXELS_API_KEY")

\* the image request failed after the news request, and the run went on to
\* its end without another request
C15_Witness ==
  /\ pl[1].pc = "returned" /\ ~pl[1].healthCheck
  /\ pl[1].sent = <<"news", "pexels">>
  /\ \E k \in 1..Len(pl[1].results.steps) :
       /\ pl[1].results.steps[k].step = "Media Collection"
       /\ pl[1].results.steps[k].details.api_calls_successful = "offline_mode"

\* the StepLog of the stage that precedes the one the run is in
PrecedingStep(pc) ==
  CASE pc \in {"collectNews", "newsWait"} -> "Environment Validation"
    [] pc = "generateScript" -> "News Collection"
    [] pc \in {"collectMedia", "mediaWait"} -> "Script Generation"
    [] pc = "generateTTS" -> "Media Collection"
    [] pc = "produceVideo" -> "TTS Generation"
    [] pc = "complete" -> "Video Production"

\* C16: during a run at most one network request is outstanding, none is
\* while the run executes statements, and a stage starts only after the stage
\* before it has logged its step and returned.
C16_OneOutstanding ==
  \A i \in Ids : FullRun(i) =>
    /\ pl[i].outstanding <= 1
    /\ pl[i].outstanding = 1 <=> pl[i].pc \in {"newsWait", "mediaWait"}
    /\ pl[i].pc \in { "collectNews", "newsWait", "generateScript", "collectMedia",
                      "mediaWait", "generateTTS", "produceVideo", "complete" }
         => LastStep(pl[i].results).step = PrecedingStep(pl[i].pc)

\* the image request is outstanding, the news request having settled
C16_Witness ==
  /\ pl[1].pc = "mediaWait" /\ pl[1].outstanding = 1
  /\ pl[1].sent = <<"news", "pexels">>

\* C17: healthCheck sends no request and changes nothing of the RunRecord but
\* for one appended 'Environment Validation' step: status stays 'running',
\* end_time, final_outputs and error stay absent, the result file is not written.
C17_HealthCheckFrame ==
  [][\A i \in Ids :
       pl[i].healthCheck /\ pl'[i] # pl[i] =>
         LET old == pl[i].results
             new == pl'[i].results
         IN /\ new.status = "running"
            /\ new.end_time = {} /\ new.final_outputs = {} /\ new.error = {}
            /\ resultFile' = resultFile
            /\ pl'[i].sent = pl[i].sent /\ pl'[i].outstanding = 0
            /\ IF pl[i].pc = "runPipeline"
                 THEN /\ Len(new.steps) = Len(old.steps) + 1
                      /\ LastStep(new).step = "Environment Validation"
                      /\ new = [old EXCEPT !.steps = Append(@, LastStep(new))]
                      /\ pl'[i].pc = "healthAwait"
                 ELSE /\ new = old
                      /\ pl[i].pc = "healthAwait"
                      /\ pl'[i].pc = "returned" /\ pl'[i].returned = "boolean"
    ]_vars

\* a health check has returned false, its record still open and unwritten
C17_Witness ==
  /\ pl[1].healthCheck /\ pl[1].pc = "returned" /\ ~pl[1].healthy
  /\ Len(pl[1].results.steps) = 1 /\ pl[1].results.status = "running"
  /\ resultFile = << >> /\ pl[1].sent = << >>

\* C18: healthCheck depends on the configuration only: its calls on one
\* instance all return the same boolean; it returns true exactly when the
\* three required keys are set to values that are not placeholders; with no key
\* set it returns false and logs missing_keys = 3.
C18_HealthOfConfiguration ==
  \A i \in Ids : pl[i].pc = "healthCheck" =>
    LET calls == pl[i].calls
        steps == pl[i].results.steps
    IN /\ \A j, k \in 1..Len(calls) : calls[j] = calls[k]
       /\ \A j \in 1..Len(calls) : calls[j] <=> (\A key \in Keys : env[key] = "real")
       /\ Len(steps) = Len(calls) + pl[i].awaiting
       /\ (\A key \in Keys : env[key] = "unset") =>
            \A j \in 1..Len(calls) :
              /\ ~calls[j]
              /\ steps[j].step = "Environment Validation"
              /\ steps[j].details.missing_keys = 3

\* two calls with no key set: both false
C18_Witness ==
  /\ pl[1].pc = "healthCheck" /\ pl[1].calls = <<FALSE, FALSE>> /\ pl[1].awaiting = 0
  /\ \A key \in Keys : env[key] = "unset"
  /\ pl[1].results.steps[2].details.missing_keys = 3
  /\ pl[1].results.steps[1].timestamp < pl[1].results.steps[2].timestamp

\* C19: with the health-check option runPipeline returns the boolean only and
\* runs no stage after the environment validation; without it all six stages
\* execute; the process exits with a non-zero code exactly when runPipeline
\* throws.
C19_OptionAndExit ==
  /\ \A i \in Ids : Terminated(i) /\ pl[i].healthCheck =>
       /\ pl[i].pc = "returned" /\ pl[i].returned = "boolean"
       /\ StepNames(pl[i].results) = <<"Environment Validation">>
       /\ pl[i].sent = << >>
  /\ \A i \in Ids : Terminated(i) /\ ~pl[i].healthCheck =>
       \A k \in 1..Len(StageOrder) :
         \E j \in 1..Len(pl[i].results.steps) : pl[i].results.steps[j].step = StageOrder[k]
  /\ main # "running" => (main = "exit 1" <=> pl[1].pc = "thrown")

\* invocations made by timer ticks so far
TimerInvocations == sched.count - (IF sched.hadLastRun THEN 0 ELSE 1)

\* C20: startScheduler invokes runScheduledVideoGeneration at once when it
\* finds no LastRunRecord, and after that on every tick of the timer, 4 hours
\* apart, counted from the call of setInterval.
C20_ImmediateThenEveryFourHours ==
  sched.pc \in {"awaitInitial", "timer"} =>
    /\ ~sched.hadLastRun =>
         /\ inv[1].pc # "none" /\ inv[1].gateAt = StartTime
         /\ inv[1].seen.kind # "record"
    /\ sched.pc = "timer" =>
         /\ \A k \in 1..TimerInvocations :
              LET i == k + (IF sched.hadLastRun THEN 0 ELSE 1) IN
              /\ inv[i].pc # "none"
              /\ inv[i].gateAt = sched.setAt + k * 4 * OneHour
         /\ sched.count < MaxInv => now <= sched.setAt + (TimerInvocations + 1) * 4 * OneHour

\* no record at start: the first run took an hour, and the first tick came
\* four hours after it had ended
C20_Witness ==
  /\ sched.pc = "timer" /\ ~sched.hadLastRun
  /\ sched.setAt = StartTime + OneHour
  /\ inv[2].pc # "none" /\ inv[2].gateAt = StartTime + 5 * OneHour

\* the last request has been handled and its URL was valid
Handled == server.request # << >>
LastRequest == server.request[1]
LastPathname == ParseUrl(LastRequest.url).pathname
Routed == Handled /\ ParseUrl(LastRequest.url).valid

KnownPaths == {Root, HealthPath, ScrapeNewsPath}

SuccessEnvelopes == {SuccessMessage("Server is running"), SuccessMessage("ok"), SuccessNews}

\* the answer the routes give to a pathname
RouteAnswer(pathname, responses) ==
  /\ Len(responses) = 1
  /\ IF pathname \in KnownPaths
       THEN responses[1].statusCode = 200 /\ responses[1].body \in SuccessEnvelopes
       ELSE responses[1].statusCode = 404 /\ responses[1].body = ErrorEnvelope("Not found")

\* C21: a request for /, /health or /scrape-news is answered with 200 and a
\* success envelope, and a request for any other path with 404 and the
\* envelope {status: 'error', message: 'Not found'}
C21_Routes == Routed => RouteAnswer(LastPathname, server.responses)

\* C21 as the code has it: the routes answer every request whose method is not
\* OPTIONS; an OPTIONS request is answered with 200 and no body whatever its path
C21_RoutesUnlessOptions ==
  Routed =>
    IF LastRequest.method = "OPTIONS"
      THEN server.responses = <<Response(200, NoBody)>>
      ELSE /\ RouteAnswer(LastPathname, server.responses)
           /\ LastPathname = Root => server.responses[1].body = SuccessMessage("Server is running")
           /\ LastPathname = HealthPath => server.responses[1].body = SuccessMessage("ok")
           /\ LastPathname = ScrapeNewsPath => server.responses[1].body = SuccessNews

\* a second request, for /video, has been answered 404 after a first one was
\* answered
C21_Witness ==
  /\ Routed
  /\ server.received = 2
  /\ LastRequest = [method |-> "POST", url |-> <<"/", "video">>]
  /\ server.responses = <<Response(404, ErrorEnvelope("Not found"))>>

\* an OPTIONS request for an unknown path is answered 200
C21_Counterexample ==
  ~(/\ Routed
    /\ LastRequest.method = "OPTIONS"
    /\ LastPathname \notin KnownPaths
    /\ server.responses[1].statusCode = 200)

\* C22: every request the service receives gets exactly one response, which
\* carries the cross-origin headers, and a request whose handling raises an
\* error is answered with the 500 error envelope
C22_OneResponse ==
  Handled =>
    /\ Len(server.responses) = 1
    /\ server.responses[1].headers = CorsHeaders
    /\ ~ParseUrl(LastRequest.url).valid =>
         server.responses[1] = Response(500, ErrorEnvelope("Internal server error"))

\* every request that handleRequest does answer gets one response with the
\* cross-origin headers, and the service goes on listening until it is stopped
AnsweredOnceWithHeaders ==
  Routed =>
    /\ Len(server.responses) = 1
    /\ server.responses[1].headers = CorsHeaders
    /\ server.state # "crashed"

\* the details logged by the named step of a run
StepDetails(results, stepName) ==
  results.steps[CHOOSE k \in 1..Len(results.steps) : results.steps[k].step = stepName].details

\* C23: the word_count that generateScript logs is the number of
\* whitespace-delimited tokens of the script, the estimated duration is
\* word_count / 150 * 60 seconds, and generateTTS derives the same duration
C23_WordCount ==
  \A i \in Ids :
    /\ pl[i].script # << >> =>
         LET d == StepDetails(pl[i].results, "Script Generation") IN
         /\ d.word_count = WhitespaceTokens(pl[i].script[1])
         /\ d.estimated_duration_tenths * 150 = d.word_count * 60 * 10
    /\ pl[i].audio # << >> =>
         /\ pl[i].audio[1].duration_tenths
              = StepDetails(pl[i].results, "Script Generation").estimated_duration_tenths
         /\ StepDetails(pl[i].results, "TTS Generation").duration_tenths
              = pl[i].audio[1].duration_tenths

\* the duration part alone: both stages derive word_count / 150 * 60 from the
\* same count
DurationOfWordCount ==
  \A i \in Ids :
    /\ pl[i].script # << >> =>
         LET d == StepDetails(pl[i].results, "Script Generation") IN
         d.estimated_duration_tenths * 150 = d.word_count * 60 * 10
    /\ pl[i].audio # << >> =>
         /\ pl[i].audio[1].duration_tenths
              = StepDetails(pl[i].results, "Script Generation").estimated_duration_tenths
         /\ StepDetails(pl[i].results, "TTS Generation").duration_tenths
              = pl[i].audio[1].duration_tenths

\* the items the image collaborator yielded to the run, in their order
YieldedMedia(p) ==
  IF p.response = << >> THEN << >> ELSE MediaCollected(p.response[1]).items

\* C24: when the image collaborator yields n items, collectMedia adds fallback
\* items exactly when n < 5 and no more of them than are needed to reach 5;
\* when n >= 5 it returns exactly the n real items; the items collected
\* earlier stay in the list, in their order, before any fallback item
C24_PadsToFive ==
  \A i \in Ids : ReturnedMedia(pl[i]) =>
    LET media == pl[i].media
        yielded == YieldedMedia(pl[i])
        n == Len(yielded)
        added == CountSource(media, FallbackSources)
    IN /\ added > 0 <=> n < 5
       /\ n < 5 => added <= 5 - n
       /\ n >= 5 => media = yielded
       /\ Len(media) >= n /\ SubSeq(media, 1, n) = yielded
       /\ \A k \in (n + 1)..Len(media) : media[k].source \in FallbackSources

\* what the code does: all five fallback items are added whenever n < 5
PadsWithAllFive ==
  \A i \in Ids : ReturnedMedia(pl[i]) =>
    LET media == pl[i].media
        yielded == YieldedMedia(pl[i])
        n == Len(yielded)
    IN /\ CountSource(media, FallbackSources) = IF n < 5 THEN 5 ELSE 0
       /\ Len(media) = n + CountSource(media, FallbackSources)
       /\ SubSeq(media, 1, n) = yielded
       /\ \A k \in (n + 1)..Len(media) : media[k].source \in FallbackSources

\* C25: every LastRunRecord the scheduler writes has status 'completed':
\* saveLastRun runs only after runPipeline has returned, so neither the record
\* written nor the status tested at line 62 is ever 'failed'
C25_SavedCompleted ==
  [][ /\ (lastRunFile' # lastRunFile /\ lastRunFile'.kind = "record")
          => lastRunFile'.status = "completed"
      /\ \A i \in Ids :
           /\ inv'[i].saved => inv'[i].runStatus = "completed"
           /\ inv'[i].outcome = "returned" => inv'[i].runStatus = "completed" ]_vars

\* a first run failed and wrote nothing, a later one returned and its record
\* is in the file
C25_Witness ==
  /\ inv[1].outcome = "threw"
  /\ inv[1].runStatus = "failed"
  /\ ~inv[1].saved
  /\ inv[2].saved
  /\ lastRunFile.kind = "record"
  /\ lastRunFile.status = "completed"
  /\ lastRunFile.timestamp > StartTime

\* every callback that has run for the request, in order
Callbacks(p) == p.event \o p.late

TimeoutFired(p) == \E k \in 1..Len(Callbacks(p)) : Callbacks(p)[k].type = "timeout"

\* C26: when the timeout of a request fires, the caller observes the
\* 'Request timeout' rejection, and no error event or response callback that
\* comes afterwards replaces that outcome
C26_TimeoutObserved ==
  \A i \in Ids :
    (pl[i].pc = "settled" /\ TimeoutFired(pl[i])) =>
      pl[i].response = <<Rejected("Request timeout")>>

\* C26 as the code has it: the outcome is that of the first callback that
\* calls resolve or reject, and no callback that runs afterwards changes it; so
\* a timeout that fires on a pending request leaves the 'Request timeout'
\* rejection whatever runs afterwards, and a timeout that fires after the
\* request was settled changes nothing
C26_FirstSettlementStays ==
  [][\A i \in Ids :
       pl'[i].pc = "settled" =>
         /\ Len(pl'[i].response) = 1
         /\ pl'[i].event[1].type = "timeout" =>
              pl'[i].response = <<Rejected("Request timeout")>>
         /\ pl[i].pc = "settled" =>
              /\ pl'[i].response = pl[i].response
              /\ pl'[i].event = pl[i].event
              /\ pl'[i].outstanding = 0
    ]_vars

\* the timeout fired first; the error of the destroyed request and a response
\* callback came afterwards
C26_Witness ==
  /\ pl[1].pc = "settled"
  /\ pl[1].event = <<NetTimeout>>
  /\ pl[1].late = <<NetError, NetResponse(200, TRUE, NewsBody("success", "array", << >>))>>
  /\ pl[1].response = <<Rejected("Request timeout")>>

====
